---- MODULE Spec2Model ----
(***************************************************************************)
(* Model of the market-data sources of src/data/dataHandler.py:            *)
(* HistoricCSVDataHandler, AlpacaData, TDAData and FMPData.  One source is *)
(* constructed (download / fetch, trim, align, build the row iterators)    *)
(* and is then driven by update_bars and queried by get_latest_bars.       *)
(*                                                                         *)
(* Encodings.  A calendar day is a number in Days.  A date string          *)
(* "YYYY-MM-DD" is the day number d; a pandas Timestamp is the number of   *)
(* hours d * 24; Tiingo's "YYYY-MM-DDT00:00:00.000Z" is the pair           *)
(* <<d, "T00:00:00.000Z">>; TDA's epoch milliseconds are d * 1000.  The    *)
(* five columns open/high/low/close/volume are always handled together by  *)
(* the code and are modelled by the one column close.                      *)
(***************************************************************************)
EXTENDS Integers, Sequences, FiniteSets, TLC

\* ---------------------------------------------------------------- bounds
MaxT == 3
MaxTicks == 4
MaxN == 2
MaxRequests == 6

\* ------------------------------------------------------------- constants
Symbols == {"AAA", "BBB"}
Untracked == "ZZZ"
Days == 1..MaxT
NoDate == 0
Variants == {"CSV", "Alpaca", "TDA", "FMP"}

SymNo(s) == IF s = "AAA" THEN 1 ELSE IF s = "BBB" THEN 2 ELSE 3

\* the price the vendor quotes for symbol s on day d (never the sentinel 0)
Price(s, d) == 10 * SymNo(s) + d

\* ------------------------------------------------------- sequence helpers
RECURSIVE Reverse(_)
Reverse(q) == IF q = <<>> THEN <<>> ELSE Append(Reverse(Tail(q)), Head(q))

RECURSIVE SeqFilterOut(_, _)
\* [sym for sym in symbol_list if sym not in dne]
SeqFilterOut(q, dne) ==
    IF q = <<>> THEN <<>>
    ELSE IF Head(q) \in dne THEN SeqFilterOut(Tail(q), dne)
         ELSE <<Head(q)>> \o SeqFilterOut(Tail(q), dne)

Range(q) == {q[i] : i \in 1..Len(q)}

\* python slice q[-N:] for N >= 0: -0 is 0, so q[-0:] is the whole list
LastN(q, N) ==
    IF N = 0 \/ N >= Len(q) THEN q ELSE SubSeq(q, Len(q) - N + 1, Len(q))

\* the distinct-symbol lists over Symbols, in every order
SymbolLists ==
    {q \in UNION {[1..n -> Symbols] : n \in 0..Cardinality(Symbols)} :
        \A i, j \in 1..Len(q) : i # j => q[i] # q[j]}

\* -------------------------------------------------- vendor and cache data
RECURSIVE RowsFrom(_, _, _)
\* the rows of symbol s on the days of D, oldest first, from day d on
RowsFrom(s, D, d) ==
    IF d > MaxT THEN <<>>
    ELSE (IF d \in D THEN <<[datetime |-> d, close |-> Price(s, d)]>> ELSE <<>>)
         \o RowsFrom(s, D, d + 1)

Rows(s, D) == RowsFrom(s, D, 1)

\* what the vendor answers for one symbol: an HTTP failure, a body that is
\* not the expected JSON, or a list of rows (possibly empty)
Responses(s) ==
    {[kind |-> "notok", rows |-> <<>>], [kind |-> "malformed", rows |-> <<>>]}
    \cup {[kind |-> "ok", rows |-> Rows(s, D)] : D \in SUBSET Days}

NoFile == [exists |-> FALSE, rows |-> <<>>]
CacheFiles(s) ==
    {NoFile} \cup {[exists |-> TRUE, rows |-> Rows(s, D)] : D \in SUBSET Days}

\* ----------------------------------------------------- date conversions
TiingoSuffix == "T00:00:00.000Z"
\* Tiingo's JSON date of day d
TiingoDate(d) == <<d, TiingoSuffix>>
\* x.replace("T00:00:00.000Z", "")
StripTiingo(x) == x[1]
\* pd.to_datetime(x, infer_datetime_format=True): date string -> Timestamp
to_datetime(x) == x * 24
\* datetime.fromtimestamp(x/1000).strftime(...): epoch millis -> date string
from_epoch_ms(x) == x \div 1000
\* ts + pd.DateOffset(days=1)
PlusOneDay(ts) == ts + 24
\* pd.Timestamp.today(tz=NY) during day d (some time after midnight)
TodayTs(d) == d * 24 + 12

\* ------------------------------------------------------- pandas helpers
RECURSIVE drop_dup(_, _, _)
drop_dup(rows, i, acc) ==
    IF i > Len(rows) THEN acc
    ELSE drop_dup(rows, i + 1,
            IF \E j \in 1..Len(acc) : acc[j].close = rows[i].close
            THEN acc ELSE Append(acc, rows[i]))

\* DataFrame.drop_duplicates() with the date as index: a row is dropped when
\* an earlier row has the same column values, whatever its date
drop_duplicates(rows) == drop_dup(rows, 1, <<>>)

IndexOf(frame) == [i \in 1..Len(frame) |-> frame[i].datetime]
InIndex(x, frame) == \E i \in 1..Len(frame) : frame[i].datetime = x
\* Index.get_loc(x) on a unique index: the 0-based position of label x
get_loc(frame, x) ==
    (CHOOSE i \in 1..Len(frame) : frame[i].datetime = x) - 1
\* frame.iloc[k + 1:, ]: the slice starting one row late
iloc_from_next(frame, k) == SubSeq(frame, k + 2, Len(frame))
\* frame.iloc[k:, ] and frame.iloc[:k, ]
iloc_from(frame, k) == SubSeq(frame, k + 1, Len(frame))
iloc_to(frame, k) == SubSeq(frame, 1, k)

StrictlyIncreasing(frame) ==
    \A i, j \in 1..Len(frame) : i < j => frame[i].datetime < frame[j].datetime

\* reindex filling from the next label instead of the previous one
PadValue_backfill(frame, x) ==
    LET above == {i \in 1..Len(frame) : frame[i].datetime >= x} IN
    IF above = {} THEN 0
    ELSE frame[CHOOSE i \in above :
                 \A j \in above : frame[i].datetime <= frame[j].datetime].close

\* the value reindex(method='pad', fill_value=0) gives at label x: the row of
\* the greatest label <= x, and 0 when there is none
PadValue(frame, x) ==
    LET below == {i \in 1..Len(frame) : frame[i].datetime <= x} IN
    IF below = {} THEN 0
    ELSE frame[CHOOSE i \in below :
                 \A j \in below : frame[j].datetime <= frame[i].datetime].close

\* frame.reindex(index=index, method='pad', fill_value=0)
reindex(frame, index) ==
    [i \in 1..Len(index) |->
        [datetime |-> index[i], close |-> PadValue(frame, index[i])]]

\* the vendor's epoch millis of day d
to_epoch_ms(d) == d * 1000

\* frame.index = frame.index.map(f), for each conversion f the code maps
IndexTiingoDate(frame) ==
    [i \in 1..Len(frame) |-> [frame[i] EXCEPT !.datetime = TiingoDate(@)]]
IndexStripTiingo(frame) ==
    [i \in 1..Len(frame) |-> [frame[i] EXCEPT !.datetime = StripTiingo(@)]]
IndexToDatetime(frame) ==
    [i \in 1..Len(frame) |-> [frame[i] EXCEPT !.datetime = to_datetime(@)]]
IndexFromEpochMs(frame) ==
    [i \in 1..Len(frame) |-> [frame[i] EXCEPT !.datetime = from_epoch_ms(@)]]
IndexToEpochMs(frame) ==
    [i \in 1..Len(frame) |-> [frame[i] EXCEPT !.datetime = to_epoch_ms(@)]]

\* ------------------------------------------------------------------ state
VARIABLES
    variant,             \* which class is instantiated
    live,                \* self.live (the archival source has no live mode)
    frequency,           \* self.frequency of FMPData
    requested,           \* the symbol_list argument of the constructor
    symbol_list,         \* self.symbol_list
    start_date,          \* self.start_date
    end_date,            \* self.end_date (NoDate for None)
    today,               \* the calendar day of the run
    vendor,              \* what the vendor answers for each symbol
    cache,               \* the csv files of the cache directory
    symbol_data,         \* self.symbol_data: frames, then row iterators
    latest_symbol_data,  \* self.latest_symbol_data
    continue_backtest,   \* self.continue_backtest
    events,              \* the shared event queue
    requests,            \* number of vendor requests issued so far
    pc,                  \* position of the constructor / "ready" / "raised"
    error,               \* exception raised by the last call, or "none"
    ticks,               \* number of update_bars calls made
    lastOp,              \* the last operation called
    pool                 \* the tasks of the constructor's p.map call, <<>> before it

vars == <<variant, live, frequency, requested, symbol_list, start_date,
          end_date, today, vendor, cache, symbol_data, latest_symbol_data,
          continue_backtest, events, requests, pc, error, ticks, lastOp,
          pool>>

\* what no step of the constructing thread changes: the arguments, the
\* environment and the tasks of the pool
config == <<variant, live, frequency, requested, today, vendor, pool>>

\* what a call returns besides a bar window
None == [kind |-> "none"]
Raised(e) == [kind |-> "raised", exc |-> e]

\* values of symbol_data[s]
Frame(rows) == [kind |-> "frame", rows |-> rows, pos |-> 0]
NoneFrame == [kind |-> "none", rows |-> <<>>, pos |-> 0]
Empty == [s \in {} |-> 0]

Put(f, k, v) == [x \in DOMAIN f \cup {k} |-> IF x = k THEN v ELSE f[x]]

\* ----------------------------------------- HistoricCSVDataHandler: set-up
\* the JSON body Tiingo sends for the canonical rows
TiingoPayload(rows) == IndexTiingoDate(rows)

RECURSIVE download_loop(_, _, _, _)
\* for sym in self.symbol_list: ... of _download_files;
\* st = [cache, dne, requests, error]
download_loop(list, vend, i, st) ==
    IF i > Len(list) \/ st.error # "none" THEN st
    ELSE LET sym == list[i] IN
         IF st.cache[sym].exists THEN download_loop(list, vend, i + 1, st)
         ELSE LET res_data == vend[sym]
                  st1 == [st EXCEPT !.requests = @ + 1] IN
              IF res_data.kind = "notok"
              THEN download_loop(list, vend, i + 1,
                        [st1 EXCEPT !.dne = @ \cup {sym}])
              ELSE IF res_data.kind = "malformed"
              \* pd.DataFrame() fails and is logged; res_data is still the
              \* Response and has no set_index
              THEN [st1 EXCEPT !.error = "AttributeError"]
              ELSE IF res_data.rows = <<>>
              \* an empty DataFrame has no 'date' column
              THEN [st1 EXCEPT !.error = "KeyError"]
              ELSE download_loop(list, vend, i + 1,
                        [st1 EXCEPT !.cache[sym] =
                            [exists |-> TRUE,
                             rows |-> IndexStripTiingo(TiingoPayload(res_data.rows))]])

\* _download_files without the os.path.exists test: every symbol of the list
\* is requested and its file written again
download_files_refetching(list, vend, files, reqs) ==
    download_loop(list, vend, 1,
        [cache |-> [s \in DOMAIN files |->
                       IF s \in Range(list) THEN NoFile ELSE files[s]],
         dne |-> {}, requests |-> reqs, error |-> "none"])

download_files(list, vend, files, reqs) ==
    download_loop(list, vend, 1,
        [cache |-> files, dne |-> {}, requests |-> reqs, error |-> "none"])

\* pd.read_csv(..., index_col=0).drop_duplicates().loc[:, [...]]
read_csv(files, s) == drop_duplicates(files[s].rows)

\* dfs: the loaded frame of every symbol of the list
read_csv_files(list, files) == [s \in Range(list) |-> read_csv(files, s)]

NoIndex == [set |-> FALSE, index |-> <<>>]

\* comb_index after one more retained frame: the first frame sets it; for
\* the later ones the result of comb_index.union(...) is not assigned
combine_index(comb, frame) ==
    IF ~comb.set THEN [set |-> TRUE, index |-> IndexOf(frame)] ELSE comb

RECURSIVE convert_loop(_, _, _, _, _, _)
\* for sym, temp_df in dfs: ... of _open_convert_csv_files;
\* st = [symbol_data, latest, dne, comb, error]
convert_loop(list, dfs, sd, ed, i, st) ==
    IF i > Len(list) \/ st.error # "none" THEN st
    ELSE LET sym == list[i]
             temp_df == dfs[sym] IN
         IF ~InIndex(sd, temp_df)
         THEN convert_loop(list, dfs, sd, ed, i + 1,
                  [st EXCEPT !.dne = @ \cup {sym}])
         ELSE LET filtered == iloc_from(temp_df, get_loc(temp_df, sd)) IN
              IF ed # NoDate /\ ~InIndex(ed, temp_df)
              THEN convert_loop(list, dfs, sd, ed, i + 1,
                       [st EXCEPT !.dne = @ \cup {sym}])
              ELSE IF ed # NoDate /\ ~InIndex(ed, filtered)
              \* filtered.index.get_loc(self.end_date) on a missing label
              THEN [st EXCEPT !.error = "KeyError"]
              ELSE LET kept == IF ed = NoDate THEN filtered
                               ELSE iloc_to(filtered, get_loc(filtered, ed))
                   IN convert_loop(list, dfs, sd, ed, i + 1,
                        [st EXCEPT
                            !.symbol_data = Put(@, sym, Frame(kept)),
                            !.comb = combine_index(@, kept),
                            !.latest = Put(@, sym, <<>>)])

RECURSIVE reindex_loop(_, _, _, _)
\* for s in self.symbol_list: reindex and convert the index;
\* st = [symbol_data, error]
reindex_loop(list, comb, i, st) ==
    IF i > Len(list) \/ st.error # "none" THEN st
    ELSE LET s == list[i]
             frame == st.symbol_data[s].rows IN
         IF ~StrictlyIncreasing(frame)
         \* pad needs a unique, monotonic index
         THEN [st EXCEPT !.error = "ValueError"]
         ELSE reindex_loop(list, comb, i + 1,
                  [st EXCEPT !.symbol_data[s] =
                      Frame(IndexToDatetime(reindex(frame, comb.index)))])

RECURSIVE generator_loop(_, _, _)
\* for s in self.symbol_list: self.symbol_data[s] = ....iterrows()
generator_loop(list, i, data) ==
    IF i > Len(list) THEN data
    ELSE generator_loop(list, i + 1,
             [data EXCEPT ![list[i]] =
                 [kind |-> "iter", rows |-> @.rows, pos |-> 0]])

\* HistoricCSVDataHandler.__init__ up to and including _download_files
CSV_download_files ==
    /\ pc = "new" /\ variant = "CSV"
    /\ LET st == download_files(symbol_list, vendor, cache, requests) IN
        /\ cache' = st.cache
        /\ requests' = st.requests
        /\ error' = st.error
        /\ IF st.error # "none"
           THEN /\ pc' = "raised"
                /\ UNCHANGED symbol_list
           ELSE /\ pc' = "downloaded"
                /\ symbol_list' = SeqFilterOut(symbol_list, st.dne)
    /\ lastOp' = "__init__"
    /\ UNCHANGED <<config, start_date, end_date, symbol_data,
                   latest_symbol_data, continue_backtest, events, ticks>>

\* _open_convert_csv_files after the load: the trimming loop, the filter and
\* the reindexing of the frames dfs;
\* the result is [symbol_list, symbol_data, latest, error]
open_convert(list, dfs, sd, ed, data, latest) ==
    LET st == convert_loop(list, dfs, sd, ed, 1,
                  [symbol_data |-> data, latest |-> latest,
                   dne |-> {}, comb |-> NoIndex, error |-> "none"])
        kept == SeqFilterOut(list, st.dne)
        re == reindex_loop(kept, st.comb, 1,
                  [symbol_data |-> st.symbol_data, error |-> st.error])
    IN [symbol_list |-> IF st.error # "none" THEN list ELSE kept,
        symbol_data |-> re.symbol_data, latest |-> st.latest,
        error |-> re.error]

\* _open_convert_csv_files
CSV_open_convert_csv_files ==
    /\ pc = "downloaded" /\ variant = "CSV"
    /\ LET r == open_convert(symbol_list, read_csv_files(symbol_list, cache),
                             start_date, end_date, symbol_data,
                             latest_symbol_data)
       IN
        /\ latest_symbol_data' = r.latest
        /\ symbol_data' = r.symbol_data
        /\ error' = r.error
        /\ symbol_list' = r.symbol_list
        /\ pc' = IF r.error # "none" THEN "raised" ELSE "converted"
    /\ lastOp' = "__init__"
    /\ UNCHANGED <<config, start_date, end_date, cache, continue_backtest,
                   events, requests, ticks>>

\* _to_generator, the last step of every constructor that builds iterators
to_generator ==
    /\ pc = "converted"
    /\ symbol_data' = generator_loop(symbol_list, 1, symbol_data)
    /\ pc' = "ready"
    /\ lastOp' = "__init__"
    /\ UNCHANGED <<config, symbol_list, start_date, end_date, cache,
                   latest_symbol_data, continue_backtest, events, requests,
                   error, ticks>>

\* ------------------------------------------------- drip feed (base class)
MarketEvent == "MARKET"

RECURSIVE bars_loop(_, _, _)
\* for s in self.symbol_list: ... of HistoricCSVDataHandler.update_bars, with
\* next(self._get_new_bar(s)); st = [symbol_data, latest, cont, error]
bars_loop(list, i, st) ==
    IF i > Len(list) \/ st.error # "none" THEN st
    ELSE LET s == list[i] IN
         IF s \notin DOMAIN st.symbol_data
         THEN [st EXCEPT !.error = "KeyError"]
         ELSE LET it == st.symbol_data[s] IN
              IF it.kind # "iter"
              THEN [st EXCEPT !.error = "TypeError"]
              ELSE IF it.pos >= Len(it.rows)
              \* StopIteration
              THEN bars_loop(list, i + 1, [st EXCEPT !.cont = FALSE])
              ELSE LET b == it.rows[it.pos + 1]
                       bar == [symbol |-> s, datetime |-> b.datetime,
                               close |-> b.close]
                       st1 == [st EXCEPT !.symbol_data[s].pos = @ + 1] IN
                   IF s \notin DOMAIN st.latest
                   THEN [st1 EXCEPT !.error = "KeyError"]
                   ELSE bars_loop(list, i + 1,
                            [st1 EXCEPT !.latest[s] = Append(@, bar)])

\* update_bars' loop with the StopIteration handler leaving the flag alone
base_update_bars_keeps_flag ==
    [bars_loop(symbol_list, 1,
        [symbol_data |-> symbol_data, latest |-> latest_symbol_data,
         cont |-> continue_backtest, error |-> "none"])
     EXCEPT !.cont = continue_backtest]

\* the state after HistoricCSVDataHandler.update_bars' loop
base_update_bars ==
    bars_loop(symbol_list, 1,
        [symbol_data |-> symbol_data, latest |-> latest_symbol_data,
         cont |-> continue_backtest, error |-> "none"])

\* HistoricCSVDataHandler.get_latest_bars: the bar dict of parallel lists,
\* or None after logging an error
base_get_latest_bars(symbol, N) ==
    IF symbol \in DOMAIN latest_symbol_data
    THEN LET window == LastN(latest_symbol_data[symbol], N) IN
         [kind |-> "bars", symbol |-> symbol,
          datetime |-> [i \in 1..Len(window) |-> window[i].datetime],
          close |-> [i \in 1..Len(window) |-> window[i].close]]
    ELSE None

\* what the vendor answers when asked for symbol s
VendorAnswer(s) ==
    IF s \in DOMAIN vendor THEN vendor[s]
    ELSE [kind |-> "notok", rows |-> <<>>]

\* --------------------------------------------------------------- AlpacaData
\* the DataFrame of api.get_barset(...).df: Timestamp index
AlpacaFrame(rows) == IndexToDatetime(rows)

RECURSIVE backtest_bars_loop(_, _, _)
\* for s in self.symbol_list: ... of get_backtest_bars;
\* st = [symbol_data, to_remove, requests, error]
backtest_bars_loop(list, i, st) ==
    IF i > Len(list) \/ st.error # "none" THEN st
    ELSE LET s == list[i]
             res == VendorAnswer(s)
             st1 == [st EXCEPT !.requests = @ + 1] IN
         IF res.kind # "ok"
         \* the client library raises on a failed request
         THEN [st1 EXCEPT !.error = "APIError"]
         ELSE IF Len(res.rows) = 0
         THEN backtest_bars_loop(list, i + 1,
                  [st1 EXCEPT !.to_remove = @ \cup {s}])
         ELSE backtest_bars_loop(list, i + 1,
                  [st1 EXCEPT !.symbol_data =
                      Put(@, s, Frame(AlpacaFrame(res.rows)))])

\* AlpacaData.__init__ with get_backtest_bars
Alpaca_init ==
    /\ pc = "new" /\ variant = "Alpaca"
    /\ lastOp' = "__init__"
    /\ IF live
       THEN /\ start_date' = TodayTs(today)
            /\ pc' = "ready"
            /\ UNCHANGED <<symbol_list, symbol_data, latest_symbol_data,
                           requests, error>>
       ELSE LET st == backtest_bars_loop(symbol_list, 1,
                          [symbol_data |-> Empty, to_remove |-> {},
                           requests |-> requests, error |-> "none"]) IN
            /\ start_date' = to_datetime(start_date)
            /\ latest_symbol_data' =
                   [s \in Range(symbol_list) |-> <<>>]
            /\ symbol_data' = st.symbol_data
            /\ requests' = st.requests
            /\ error' = st.error
            /\ IF st.error # "none"
               THEN /\ pc' = "raised"
                    /\ UNCHANGED symbol_list
               ELSE /\ pc' = "converted"
                    /\ symbol_list' = SeqFilterOut(symbol_list, st.to_remove)
    /\ UNCHANGED <<config, end_date, cache, continue_backtest, events, ticks>>

\* api.get_barset(symbol, '1D', limit=k): at most the k latest bars
Limit(rows, k) ==
    IF Len(rows) <= k THEN rows ELSE SubSeq(rows, Len(rows) - k + 1, Len(rows))

\* AlpacaData.get_latest_bars in live mode, with _conform_data_dict
Alpaca_live_get_latest_bars(symbol, N) ==
    LET res == VendorAnswer(symbol) IN
    IF res.kind # "ok" THEN Raised("APIError")
    ELSE LET window == LastN(Limit(AlpacaFrame(res.rows), N + 5), N) IN
         IF Len(window) = 0
         THEN [kind |-> "bars", symbol |-> symbol, datetime |-> <<>>]
         ELSE [kind |-> "bars", symbol |-> symbol,
               datetime |-> [i \in 1..Len(window) |-> window[i].datetime],
               close |-> [i \in 1..Len(window) |-> window[i].close]]

\* ------------------------------------------------------------------ TDAData
\* the candles of a price history: epoch-millisecond datetimes
TDACandles(rows) == IndexToEpochMs(rows)

RECURSIVE drop_dup_rows(_, _, _)
drop_dup_rows(rows, i, acc) ==
    IF i > Len(rows) THEN acc
    ELSE drop_dup_rows(rows, i + 1,
            IF \E j \in 1..Len(acc) : acc[j] = rows[i]
            THEN acc ELSE Append(acc, rows[i]))

\* DataFrame.drop_duplicates() while datetime is still a column: only a row
\* that repeats an earlier row in every column is dropped
drop_duplicate_rows(rows) == drop_dup_rows(rows, 1, <<>>)

RECURSIVE set_symbol_loop(_, _, _, _)
\* for sym in self.symbol_list: ... of TDAData._set_symbol_data; answers[sym]
\* is the vendor's answer; st = [symbol_data, latest, sym_to_remove, comb,
\* requests, error]
set_symbol_loop(list, answers, i, st) ==
    IF i > Len(list) \/ st.error # "none" THEN st
    ELSE LET sym == list[i]
             res == answers[sym]
             st1 == [st EXCEPT !.requests = @ + 1] IN
         IF res.kind = "malformed"
         THEN [st1 EXCEPT !.error = "JSONDecodeError"]
         ELSE IF res.kind = "notok" \/ res.rows = <<>>
         THEN set_symbol_loop(list, answers, i + 1,
                  [st1 EXCEPT !.sym_to_remove = @ \cup {sym}])
         ELSE LET temp == IndexFromEpochMs(drop_duplicate_rows(TDACandles(res.rows))) IN
              set_symbol_loop(list, answers, i + 1,
                  [st1 EXCEPT
                      !.symbol_data = Put(@, sym, Frame(temp)),
                      !.comb = combine_index(@, temp),
                      !.latest = Put(@, sym, <<>>)])

\* _set_symbol_data filtering the constructor's list instead of the current
\* self.symbol_list
set_symbol_data_from_requested(list, answers, data, latest, reqs) ==
    LET st == set_symbol_loop(list, answers, 1,
                  [symbol_data |-> data, latest |-> latest,
                   sym_to_remove |-> {}, comb |-> NoIndex,
                   requests |-> reqs, error |-> "none"])
        kept == SeqFilterOut(list, st.sym_to_remove)
        re == reindex_loop(kept, st.comb, 1,
                  [symbol_data |-> st.symbol_data, error |-> st.error])
    IN [symbol_list |-> IF st.error # "none" THEN list
                        ELSE SeqFilterOut(requested, st.sym_to_remove),
        symbol_data |-> re.symbol_data, latest |-> st.latest,
        requests |-> st.requests, error |-> re.error]

\* TDAData._set_symbol_data: the loop, the filter and the reindexing;
\* the result is [symbol_list, symbol_data, latest, requests, error]
set_symbol_data(list, answers, data, latest, reqs) ==
    LET st == set_symbol_loop(list, answers, 1,
                  [symbol_data |-> data, latest |-> latest,
                   sym_to_remove |-> {}, comb |-> NoIndex,
                   requests |-> reqs, error |-> "none"])
        kept == SeqFilterOut(list, st.sym_to_remove)
        re == reindex_loop(kept, st.comb, 1,
                  [symbol_data |-> st.symbol_data, error |-> st.error])
    IN [symbol_list |-> IF st.error # "none" THEN list ELSE kept,
        symbol_data |-> re.symbol_data, latest |-> st.latest,
        requests |-> st.requests, error |-> re.error]

\* TDAData.__init__ with _set_symbol_data when not live
TDA_init ==
    /\ pc = "new" /\ variant = "TDA"
    /\ lastOp' = "__init__"
    /\ start_date' = to_datetime(start_date)
    /\ IF live
       THEN /\ pc' = "ready"
            /\ UNCHANGED <<symbol_list, symbol_data, latest_symbol_data,
                           requests, error>>
       ELSE LET r == set_symbol_data(symbol_list, vendor, Empty, Empty,
                                     requests) IN
            /\ symbol_list' = r.symbol_list
            /\ symbol_data' = r.symbol_data
            /\ latest_symbol_data' = r.latest
            /\ requests' = r.requests
            /\ error' = r.error
            /\ IF r.error # "none"
               THEN pc' = "raised"
               ELSE pc' = "converted"
    /\ UNCHANGED <<config, end_date, cache, continue_backtest, events, ticks>>

\* [{...} for obs in self.symbol_data[sym].iterrows()]
RowDicts(frame) ==
    [i \in 1..Len(frame) |->
        [datetime |-> frame[i].datetime, close |-> frame[i].close]]

\* ------------------------------------------------------------------ FMPData
\* the JSON rows FMP sends: newest first
FMPPayload(rows) == Reverse(rows)
\* str(Timestamp): the date string the Timestamp was parsed from
ts_to_str(ts) == ts \div 24
IndexToStr(frame) ==
    [i \in 1..Len(frame) |-> [frame[i] EXCEPT !.datetime = ts_to_str(@)]]

\* FMPData._get_historical_data: a frame, None, or an exception
get_historical_data(res, freq) ==
    IF res.kind = "notok" THEN NoneFrame
    ELSE IF res.kind = "malformed"
    THEN [kind |-> "raised", rows |-> <<>>, pos |-> 0, exc |-> "JSONDecodeError"]
    ELSE LET payload == FMPPayload(res.rows) IN
         IF payload = <<>>
         THEN IF freq = "daily"
              \* .loc[:, ['date', ...]] on a frame without columns
              THEN [kind |-> "raised", rows |-> <<>>, pos |-> 0,
                    exc |-> "KeyError"]
              ELSE NoneFrame
         ELSE Frame(Reverse(payload))

\* the exception p.map re-raises: the one of the first failing symbol
RECURSIVE first_raised(_, _, _)
first_raised(list, dfs, i) ==
    IF i > Len(list) THEN "none"
    ELSE IF dfs[list[i]].kind = "raised" THEN dfs[list[i]].exc
    ELSE first_raised(list, dfs, i + 1)

RECURSIVE symbol_data_loop(_, _, _, _, _, _, _)
\* for sym, temp_df in dfs: ... of FMPData._get_symbol_data;
\* st = [symbol_data, sym_to_remove, comb]
symbol_data_loop(list, dfs, sd, ed, freq, i, st) ==
    IF i > Len(list) THEN st
    ELSE LET sym == list[i] IN
         IF dfs[sym].kind = "none"
         THEN symbol_data_loop(list, dfs, sd, ed, freq, i + 1,
                  [st EXCEPT !.sym_to_remove = @ \cup {sym}])
         ELSE LET temp_df == dfs[sym].rows
                  from_start ==
                      IF InIndex(sd, temp_df) /\ freq = "daily"
                      THEN iloc_from(temp_df, get_loc(temp_df, sd))
                      ELSE temp_df
                  to_end ==
                      IF ed # NoDate /\ InIndex(ed, from_start)
                         /\ freq = "daily"
                      THEN iloc_to(from_start, get_loc(from_start, ed))
                      ELSE from_start
              IN symbol_data_loop(list, dfs, sd, ed, freq, i + 1,
                     [st EXCEPT !.symbol_data = Put(@, sym, Frame(to_end)),
                                !.comb = combine_index(@, to_end)])

RECURSIVE fmp_reindex_loop(_, _, _, _)
\* for s in self.symbol_list: reindex, convert the index, start the history;
\* st = [symbol_data, latest, error]
fmp_reindex_loop(list, comb, i, st) ==
    IF i > Len(list) \/ st.error # "none" THEN st
    ELSE LET s == list[i]
             frame == st.symbol_data[s].rows IN
         IF ~StrictlyIncreasing(frame)
         THEN [st EXCEPT !.error = "ValueError"]
         ELSE fmp_reindex_loop(list, comb, i + 1,
                  [st EXCEPT !.symbol_data[s] =
                                 Frame(IndexToDatetime(reindex(frame, comb.index))),
                             !.latest = Put(@, s, <<>>)])

\* FMPData.__init__ up to and including _get_symbol_data
FMP_get_symbol_data ==
    /\ pc = "new" /\ variant = "FMP"
    /\ lastOp' = "__init__"
    /\ LET dfs == [s \in Range(symbol_list) |->
                      get_historical_data(vendor[s], frequency)]
           raised == first_raised(symbol_list, dfs, 1)
           st == symbol_data_loop(symbol_list, dfs, start_date, end_date,
                     frequency, 1,
                     [symbol_data |-> Empty, sym_to_remove |-> {},
                      comb |-> NoIndex])
           kept == SeqFilterOut(symbol_list, st.sym_to_remove)
           re == fmp_reindex_loop(kept, st.comb, 1,
                     [symbol_data |-> st.symbol_data, latest |-> Empty,
                      error |-> "none"])
       IN
        /\ requests' = requests + Len(symbol_list)
        /\ IF raised # "none"
           THEN /\ pc' = "raised"
                /\ error' = raised
                /\ UNCHANGED <<symbol_list, symbol_data, latest_symbol_data>>
           ELSE /\ symbol_list' = kept
                /\ symbol_data' = re.symbol_data
                /\ latest_symbol_data' = re.latest
                /\ error' = re.error
                /\ IF re.error # "none"
                   THEN pc' = "raised"
                   ELSE pc' = IF ~live /\ frequency # "daily"
                              THEN "aligned" ELSE "converted"
    /\ UNCHANGED <<config, start_date, end_date, cache, continue_backtest,
                   events, ticks>>

RECURSIVE InsertSorted(_, _)
InsertSorted(q, r) ==
    IF q = <<>> THEN <<r>>
    ELSE IF r.datetime < Head(q).datetime THEN <<r>> \o q
    ELSE <<Head(q)>> \o InsertSorted(Tail(q), r)

RECURSIVE sort_index(_)
\* DataFrame.sort_index(): rows in the order of their labels
sort_index(rows) ==
    IF rows = <<>> THEN <<>>
    ELSE InsertSorted(sort_index(SubSeq(rows, 1, Len(rows) - 1)),
                      rows[Len(rows)])

\* the file _save_to_csv writes for one symbol
saved_csv(file, frame) ==
    IF file.exists
    THEN LET existing_df == file.rows
             \* concat, drop_duplicates, then every label through str()
             df_copy ==
                 drop_duplicates(existing_df \o IndexToStr(frame))
         IN [exists |-> TRUE, rows |-> sort_index(df_copy)]
    ELSE [exists |-> TRUE, rows |-> IndexToStr(frame)]

\* FMPData._save_to_csv
FMP_save_to_csv ==
    /\ pc = "aligned" /\ variant = "FMP"
    /\ cache' = [s \in DOMAIN cache |->
                    IF s \in DOMAIN symbol_data
                    THEN saved_csv(cache[s], symbol_data[s].rows)
                    ELSE cache[s]]
    /\ pc' = "converted"
    /\ lastOp' = "__init__"
    /\ UNCHANGED <<config, symbol_list, start_date, end_date, symbol_data,
                   latest_symbol_data, continue_backtest, events, requests,
                   error, ticks>>

RECURSIVE live_fetch_loop(_, _, _, _, _)
\* for sym in self.symbol_list: self.symbol_data[sym] = ... of
\* FMPData.update_bars; st = [symbol_data, requests, error]
live_fetch_loop(list, answers, freq, i, st) ==
    IF i > Len(list) \/ st.error # "none" THEN st
    ELSE LET sym == list[i]
             temp_df == get_historical_data(answers[sym], freq)
             st1 == [st EXCEPT !.requests = @ + 1] IN
         IF temp_df.kind = "raised"
         THEN [st1 EXCEPT !.error = temp_df.exc]
         ELSE live_fetch_loop(list, answers, freq, i + 1,
                  [st1 EXCEPT !.symbol_data = Put(@, sym, temp_df)])

RECURSIVE live_rows_loop(_, _, _)
\* for sym in self.symbol_data: self.latest_symbol_data[sym] = [...] of
\* FMPData.update_bars; keys holds the dict's keys in insertion order;
\* st = [symbol_data, latest, error]
live_rows_loop(keys, i, st) ==
    IF i > Len(keys) \/ st.error # "none" THEN st
    ELSE LET sym == keys[i] IN
         IF st.symbol_data[sym].kind = "none"
         \* None has no iterrows
         THEN [st EXCEPT !.error = "AttributeError"]
         ELSE live_rows_loop(keys, i + 1,
                  [st EXCEPT !.latest =
                      Put(@, sym, RowDicts(st.symbol_data[sym].rows))])

\* the vendor's answers during one live tick: the symbols of fail get a
\* non-ok response, the others the vendor's series
LiveAnswers(fail) ==
    [s \in Symbols |->
        IF s \in fail THEN [kind |-> "notok", rows |-> <<>>] ELSE vendor[s]]

\* ------------------------------------------------------------- operations
Ready == pc = "ready" /\ ticks < MaxTicks

\* the part of update_bars every class shares: count the call, publish the
\* outcome; st = [error] of the class's own work
Outcome(err) ==
    /\ error' = err
    /\ ticks' = ticks + 1
    /\ lastOp' = "update_bars"

\* HistoricCSVDataHandler.update_bars
CSV_update_bars ==
    /\ Ready /\ variant = "CSV"
    /\ LET st == base_update_bars IN
        /\ symbol_data' = st.symbol_data
        /\ latest_symbol_data' = st.latest
        /\ continue_backtest' = st.cont
        /\ events' = IF st.error = "none" THEN Append(events, MarketEvent)
                     ELSE events
        /\ Outcome(st.error)
    /\ UNCHANGED <<config, symbol_list, start_date, end_date, cache,
                   requests, pc>>

\* AlpacaData.update_bars
Alpaca_update_bars ==
    /\ Ready /\ variant = "Alpaca"
    /\ start_date' = PlusOneDay(start_date)
    /\ IF ~live
       THEN LET st == base_update_bars IN
            /\ symbol_data' = st.symbol_data
            /\ latest_symbol_data' = st.latest
            /\ continue_backtest' =
                   IF st.error = "none" /\ start_date' > TodayTs(today)
                   THEN FALSE ELSE st.cont
            /\ events' = IF st.error = "none"
                         THEN Append(events, MarketEvent) ELSE events
            /\ Outcome(st.error)
       ELSE /\ events' = Append(events, MarketEvent)
            /\ Outcome("none")
            /\ UNCHANGED <<symbol_data, latest_symbol_data,
                           continue_backtest>>
    /\ UNCHANGED <<config, symbol_list, end_date, cache, requests, pc>>

\* TDAData.update_bars
TDA_update_bars ==
    /\ Ready /\ variant = "TDA"
    /\ IF ~live
       THEN LET st == base_update_bars IN
            /\ symbol_data' = st.symbol_data
            /\ latest_symbol_data' = st.latest
            /\ continue_backtest' =
                   IF st.error = "none" /\ start_date > TodayTs(today)
                   THEN FALSE ELSE st.cont
            /\ events' = IF st.error = "none"
                         THEN Append(events, MarketEvent) ELSE events
            /\ Outcome(st.error)
            /\ UNCHANGED <<symbol_list, requests>>
       ELSE \E fail \in SUBSET Range(symbol_list) :
            LET r == set_symbol_data(symbol_list, LiveAnswers(fail),
                         symbol_data, latest_symbol_data, requests) IN
            /\ symbol_list' = r.symbol_list
            /\ symbol_data' = r.symbol_data
            /\ requests' = r.requests
            /\ latest_symbol_data' =
                   IF r.error # "none" THEN r.latest
                   ELSE [s \in DOMAIN r.symbol_data |->
                            RowDicts(r.symbol_data[s].rows)]
            /\ events' = IF r.error = "none"
                         THEN Append(events, MarketEvent) ELSE events
            /\ Outcome(r.error)
            /\ UNCHANGED continue_backtest
    /\ UNCHANGED <<config, start_date, end_date, cache, pc>>

\* FMPData.update_bars
FMP_update_bars ==
    /\ Ready /\ variant = "FMP"
    /\ IF ~live
       THEN LET st == base_update_bars IN
            /\ symbol_data' = st.symbol_data
            /\ latest_symbol_data' = st.latest
            /\ continue_backtest' = st.cont
            \* super().update_bars() has put one event; the put that ends
            \* this method follows it
            /\ events' = IF st.error = "none"
                         THEN Append(Append(events, MarketEvent), MarketEvent)
                         ELSE events
            /\ Outcome(st.error)
            /\ UNCHANGED requests
       ELSE \E fail \in SUBSET Range(symbol_list) :
            LET fetched == live_fetch_loop(symbol_list, LiveAnswers(fail),
                               frequency, 1,
                               [symbol_data |-> symbol_data,
                                requests |-> requests, error |-> "none"])
                \* the keys of self.symbol_data are the symbols of
                \* self.symbol_list, inserted in that order
                st == live_rows_loop(symbol_list, 1,
                          [symbol_data |-> fetched.symbol_data,
                           latest |-> latest_symbol_data,
                           error |-> fetched.error])
            IN
            /\ symbol_data' = fetched.symbol_data
            /\ requests' = fetched.requests
            /\ latest_symbol_data' = st.latest
            /\ events' = IF st.error = "none"
                         THEN Append(events, MarketEvent) ELSE events
            /\ Outcome(st.error)
            /\ UNCHANGED continue_backtest
    /\ UNCHANGED <<config, symbol_list, start_date, end_date, cache, pc>>

Queries == Symbols \cup {Untracked}

\* what get_latest_bars(symbol, N) returns in the current state
latest_bars(symbol, N) ==
    IF variant = "Alpaca" /\ live
    THEN Alpaca_live_get_latest_bars(symbol, N)
    ELSE base_get_latest_bars(symbol, N)

\* get_latest_bars taking the pending MarketEvent off the queue
get_latest_bars_consuming ==
    /\ pc = "ready" /\ variant \in {"CSV", "TDA", "FMP"}
    /\ error' = "none"
    /\ lastOp' = "get_latest_bars"
    /\ events' = IF events = <<>> THEN events ELSE Tail(events)
    /\ UNCHANGED <<config, symbol_list, start_date, end_date, cache,
                   symbol_data, latest_symbol_data, continue_backtest,
                   requests, pc, ticks>>

\* HistoricCSVDataHandler.get_latest_bars, as inherited by TDAData and
\* FMPData: the effect of a call (its value is latest_bars)
get_latest_bars ==
    /\ pc = "ready" /\ variant \in {"CSV", "TDA", "FMP"}
    /\ error' = "none"
    /\ lastOp' = "get_latest_bars"
    /\ UNCHANGED <<config, symbol_list, start_date, end_date, cache,
                   symbol_data, latest_symbol_data, continue_backtest,
                   events, requests, pc, ticks>>

\* AlpacaData.get_latest_bars: the effect of a call for symbol
Alpaca_get_latest_bars(symbol) ==
    /\ pc = "ready" /\ variant = "Alpaca"
    /\ IF live
       THEN /\ requests < MaxRequests
            /\ requests' = requests + 1
            /\ error' = IF VendorAnswer(symbol).kind # "ok"
                        THEN "APIError" ELSE "none"
       ELSE /\ error' = "none"
            /\ UNCHANGED requests
    /\ lastOp' = "get_latest_bars"
    /\ UNCHANGED <<config, symbol_list, start_date, end_date, cache,
                   symbol_data, latest_symbol_data, continue_backtest,
                   events, pc, ticks>>

\* ---------------------------------------------------------- specification
NotOk == [kind |-> "notok", rows |-> <<>>]

\* where the data of one requested symbol comes from: a csv file an earlier
\* run left in the cache (archival source only), or the vendor
Sources(v, s) ==
    {[file |-> NoFile, answer |-> r] : r \in Responses(s)}
    \cup (IF v = "CSV"
          THEN {[file |-> f, answer |-> NotOk] :
                    f \in CacheFiles(s) \ {NoFile}}
          ELSE {})

Init ==
    /\ variant \in Variants
    /\ live \in (IF variant = "CSV" THEN {FALSE} ELSE BOOLEAN)
    /\ frequency \in (IF variant = "FMP" THEN {"daily", "1min"} ELSE {"daily"})
    /\ requested \in SymbolLists
    /\ symbol_list = requested
    /\ start_date \in Days
    /\ end_date \in (IF variant \in {"CSV", "FMP"} THEN {NoDate} \cup Days
                     ELSE {NoDate})
    /\ today \in (IF variant \in {"Alpaca", "TDA"} /\ ~live THEN 1..(MaxT + 1)
                  ELSE {1})
    /\ \E src \in [Symbols -> UNION {Sources(variant, s) : s \in Symbols}] :
        /\ \A s \in Symbols :
              IF s \in Range(requested) THEN src[s] \in Sources(variant, s)
              ELSE src[s] = [file |-> NoFile, answer |-> NotOk]
        /\ vendor = [s \in Symbols |-> src[s].answer]
        /\ cache = [s \in Symbols |-> src[s].file]
    /\ symbol_data = Empty
    /\ latest_symbol_data = Empty
    /\ continue_backtest = TRUE
    /\ events = <<>>
    /\ requests = 0
    /\ pc = "new"
    /\ error = "none"
    /\ ticks = 0
    /\ lastOp = "none"
    /\ pool = <<>>

Next ==
    \/ CSV_download_files
    \/ CSV_open_convert_csv_files
    \/ Alpaca_init
    \/ TDA_init
    \/ FMP_get_symbol_data
    \/ FMP_save_to_csv
    \/ to_generator
    \/ CSV_update_bars
    \/ Alpaca_update_bars
    \/ TDA_update_bars
    \/ FMP_update_bars
    \/ get_latest_bars
    \/ \E symbol \in Queries : Alpaca_get_latest_bars(symbol)

Spec == Init /\ [][Next]_vars

\* ------------------------------------------------------------ properties
Constructed == pc \in {"aligned", "converted", "ready"}
Active == Range(symbol_list)
Min(a, b) == IF a < b THEN a ELSE b

\* C1: every update_bars call, in every class and mode, puts exactly one
\* MarketEvent on the queue (stated here for the calls that return).
C1_OneEventPerAdvance ==
    [][(ticks' = ticks + 1 /\ error' = "none") =>
          events' = Append(events, MarketEvent)]_vars

\* no update_bars call so far has found an active symbol's iterator empty
NoExhaustionYet ==
    \A s \in Active : s \in DOMAIN symbol_data /\ symbol_data[s].pos = ticks

\* the bars of the first k rows of symbol s's series
FirstBars(s, k) ==
    [i \in 1..k |-> [symbol |-> s,
                     datetime |-> symbol_data[s].rows[i].datetime,
                     close |-> symbol_data[s].rows[i].close]]

\* C2: in a backtest, after k update_bars calls without exhaustion the
\* history of every active symbol is the first k bars of its series, and
\* get_latest_bars(symbol, n) returns the last min(n, k) of them, oldest first.
C2_PrefixAndWindow ==
    (pc = "ready" /\ ~live /\ NoExhaustionYet) =>
        \A s \in Active :
            /\ latest_symbol_data[s] = FirstBars(s, ticks)
            /\ \A N \in 0..MaxN :
                 LET k == Min(N, ticks)
                     w == latest_bars(s, N) IN
                 /\ w.kind = "bars"
                 /\ w.datetime =
                      [i \in 1..k |-> FirstBars(s, ticks)[ticks - k + i].datetime]
                 /\ w.close =
                      [i \in 1..k |-> FirstBars(s, ticks)[ticks - k + i].close]

\* C3: for every tracked symbol and every n >= 0, get_latest_bars(symbol, n)
\* returns at most n entries, oldest first, and never more entries than
\* update_bars calls have been made.
C3_WindowBounded ==
    pc = "ready" =>
        \A s \in Active, N \in 0..MaxN :
            LET w == latest_bars(s, N) IN
            w.kind = "bars" =>
                /\ Len(w.datetime) <= N
                /\ Len(w.datetime) <= ticks
                /\ \A i, j \in 1..Len(w.datetime) :
                      i < j => w.datetime[i] <= w.datetime[j]

\* this update_bars call finds some active symbol's iterator without a bar
Hit ==
    \E s \in Active : symbol_data[s].pos >= Len(symbol_data[s].rows)

\* the history of a symbol whose iterator is empty is left alone
ExhaustedKeepHistory ==
    \A s \in Active :
        symbol_data[s].pos >= Len(symbol_data[s].rows) =>
            latest_symbol_data'[s] = latest_symbol_data[s]

\* C4 as claimed: in a backtest the first update_bars call that finds an
\* active symbol without a further bar clears continue_backtest, the flag is
\* TRUE after every call before that one, it is never set back, and an
\* exhausted symbol gets no more bars.
C4_FlagOnlyOnExhaustion ==
    [][(~live /\ pc = "ready" /\ ticks' = ticks + 1 /\ Active # {}) =>
          /\ Hit => ~continue_backtest'
          /\ (~Hit /\ continue_backtest) => continue_backtest'
          /\ ~continue_backtest => ~continue_backtest'
          /\ ExhaustedKeepHistory]_vars

\* the calendar check of AlpacaData/TDAData.update_bars fires after this call
DatePassed ==
    variant \in {"Alpaca", "TDA"} /\ start_date' > TodayTs(today)

\* C4 as amended: as claimed, except that before exhaustion the Alpaca and
\* TDA backtests also clear the flag on the call after which start_date is
\* later than today; the flag stays TRUE exactly when neither happens.
C4_FlagOnExhaustionOrDate ==
    [][(~live /\ pc = "ready" /\ ticks' = ticks + 1) =>
          /\ Hit => ~continue_backtest'
          /\ (~Hit /\ continue_backtest) => (continue_backtest' <=> ~DatePassed)
          /\ ~continue_backtest => ~continue_backtest'
          /\ ExhaustedKeepHistory]_vars

\* an Alpaca backtest stopped by one symbol running dry, before the calendar
\* check, while another symbol still has bars
C4_Witness ==
    /\ ~live /\ pc = "ready" /\ lastOp = "update_bars"
    /\ ~continue_backtest
    /\ variant = "Alpaca" /\ start_date <= TodayTs(today)
    /\ \E s, u \in Active :
          /\ symbol_data[s].pos < ticks
          /\ symbol_data[u].pos = ticks
          /\ symbol_data[u].pos < Len(symbol_data[u].rows)

\* C5: get_latest_bars for a symbol that was excluded or never tracked
\* signals the unknown symbol: it returns no bar window, not even an empty one.
C5_UnknownSymbolSignalled ==
    pc = "ready" =>
        \A s \in Queries \ Active, N \in 0..MaxN :
            latest_bars(s, N).kind # "bars"

Labels(frame) == {frame[i].datetime : i \in 1..Len(frame)}

\* C7: after the construction of a non-live source all active symbols have
\* series of the same length with the same timestamp sequence.
C7_Rectangular ==
    (Constructed /\ ~live) =>
        \A s, u \in Active :
            IndexOf(symbol_data[s].rows) = IndexOf(symbol_data[u].rows)

\* the series of symbol s as it enters the alignment: loaded, normalised and
\* trimmed, before the reindexing
Trimmed(s) ==
    IF variant = "CSV"
    THEN convert_loop(<<s>>, read_csv_files(<<s>>, cache), start_date,
             end_date, 1,
             [symbol_data |-> Empty, latest |-> Empty, dne |-> {},
              comb |-> NoIndex, error |-> "none"]).symbol_data[s].rows
    ELSE IF variant = "FMP"
    THEN symbol_data_loop(<<s>>,
             [x \in {s} |-> get_historical_data(vendor[s], frequency)],
             start_date, end_date, frequency, 1,
             [symbol_data |-> Empty, sym_to_remove |-> {},
              comb |-> NoIndex]).symbol_data[s].rows
    ELSE IndexFromEpochMs(drop_duplicate_rows(TDACandles(vendor[s].rows)))

\* C8: the canonical index is the union of the timestamps of all retained
\* symbols: every timestamp of any retained symbol's series is in every
\* aligned series, whatever the order of the symbol list.
C8_IndexIsUnion ==
    (Constructed /\ ~live /\ variant \in {"CSV", "TDA", "FMP"}) =>
        \A s, u \in Active :
            \A x \in Labels(Trimmed(u)) :
                to_datetime(x) \in Labels(symbol_data[s].rows)

\* the series of a requested symbol as loaded, before trimming: there is
\* one when the archival source has its file or FMP answered with rows
HasNative(s) ==
    IF variant = "CSV" THEN cache[s].exists
    ELSE get_historical_data(vendor[s], frequency).kind = "frame"
Native(s) ==
    IF variant = "CSV" THEN read_csv(cache, s)
    ELSE get_historical_data(vendor[s], frequency).rows

MissesBound(s) ==
    \/ ~InIndex(start_date, Native(s))
    \/ end_date # NoDate /\ ~InIndex(end_date, Native(s))

\* C9: in the classes that take start and end bounds, a symbol whose native
\* index lacks the start date or the end date is dropped at construction:
\* it is not active, has no series and no history.
C9_MissingBoundDropped ==
    (Constructed /\ variant \in {"CSV", "FMP"}) =>
        \A s \in Range(requested) :
            (HasNative(s) /\ MissesBound(s)) =>
                /\ s \notin Active
                /\ s \notin DOMAIN symbol_data
                /\ s \notin DOMAIN latest_symbol_data

\* the vendor answers a symbol's fetch with a non-ok response or with an
\* empty payload
BadAnswer(s) ==
    \/ vendor[s].kind = "notok"
    \/ vendor[s].kind = "ok" /\ vendor[s].rows = <<>>

\* the constructor step that fetches from the vendor
FetchStep ==
    /\ pc = "new" /\ pc' # "new"
    /\ ~(variant \in {"Alpaca", "TDA"} /\ live)
    /\ \A s \in Range(requested) : vendor[s].kind # "malformed"

\* C10: a symbol whose fetch is answered non-ok or empty during construction
\* is absent from the universe afterwards, no exception reaches the caller
\* and no cache entry is created for it.
C10_FailedFetchExcluded ==
    [][FetchStep =>
          \A s \in Range(requested) :
              (~cache[s].exists /\ BadAnswer(s)) =>
                  /\ pc' # "raised"
                  /\ s \notin Range(symbol_list')
                  /\ ~cache'[s].exists]_vars

\* every fetch of the construction succeeds: each requested symbol has its
\* file in the cache or gets rows from the vendor
AllFetched ==
    \A s \in Range(requested) :
        cache[s].exists \/ (vendor[s].kind = "ok" /\ vendor[s].rows # <<>>)

\* C11: construction never raises because of one symbol, whatever the symbol
\* list, the bounds and the per-symbol outcome at the fetch, load, trim and
\* align stages: the symbol is dropped and construction completes.  Stated
\* here for the constructions whose fetches all succeed, so that what is left
\* is the outcome of the load, trim and align stages.
C11_ConstructionCompletes == AllFetched => pc # "raised"

\* C12: over the lifetime of a source the active universe only shrinks: after
\* every step symbol_list holds no symbol it did not hold before.
C12_UniverseOnlyShrinks ==
    [][Range(symbol_list') \subseteq Range(symbol_list)]_vars

\* a live TDA source that lost a symbol on one tick and ticked again
C12_Witness ==
    /\ variant = "TDA" /\ live /\ ticks >= 2 /\ error = "none"
    /\ Active # Range(requested)
    /\ Active # {}

\* C13: when every requested symbol is excluded during construction, the
\* caller gets a fatal error and no source that can be advanced.
C13_EmptyUniverseFatal ==
    (pc = "ready" /\ requested # <<>>) => symbol_list # <<>>

\* ------------------------------------------- specification: the FMP cache
\* a quiet market: the vendor quotes symbol s at the same price on every day
FlatPrice(s) == 10 * SymNo(s)
FlatRows(s, D) ==
    [i \in 1..Len(Rows(s, D)) |-> [Rows(s, D)[i] EXCEPT !.close = FlatPrice(s)]]

\* the vendor's answers when its quotes may repeat from one day to the next
ResponsesFlat(s) ==
    Responses(s)
    \cup {[kind |-> "ok", rows |-> FlatRows(s, D)] : D \in SUBSET Days}

\* an intraday FMP backtest started over a cache directory that earlier runs
\* may have filled; the bounds are not used at this frequency
InitFMPCache ==
    /\ variant = "FMP" /\ live = FALSE /\ frequency = "1min"
    /\ requested \in SymbolLists
    /\ symbol_list = requested
    /\ start_date = 1 /\ end_date = NoDate /\ today = 1
    /\ vendor \in [Symbols -> UNION {ResponsesFlat(s) : s \in Symbols}]
    /\ \A s \in Symbols :
          vendor[s] \in (IF s \in Range(requested) THEN ResponsesFlat(s)
                         ELSE {NotOk})
    /\ cache \in [Symbols -> UNION {CacheFiles(s) : s \in Symbols}]
    /\ \A s \in Symbols :
          cache[s] \in (IF s \in Range(requested) THEN CacheFiles(s)
                        ELSE {NoFile})
    /\ symbol_data = Empty
    /\ latest_symbol_data = Empty
    /\ continue_backtest = TRUE
    /\ events = <<>>
    /\ requests = 0
    /\ pc = "new"
    /\ error = "none"
    /\ ticks = 0
    /\ lastOp = "none"
    /\ pool = <<>>

NextFMPCache ==
    \/ FMP_get_symbol_data
    \/ FMP_save_to_csv
    \/ to_generator
    \/ FMP_update_bars
    \/ get_latest_bars

SpecFMPCache == InitFMPCache /\ [][NextFMPCache]_vars

\* the series _save_to_csv appends for symbol s, with the labels it writes
Fresh(s) == IndexToStr(symbol_data[s].rows)

\* C14: appending a freshly fetched series to an existing cache entry that
\* overlaps it leaves a cached series that is sorted by timestamp, has no two
\* rows with the same timestamp and has every timestamp of either input.
C14_AppendMergesByTimestamp ==
    [][(pc = "aligned" /\ pc' = "converted") =>
          \A s \in DOMAIN symbol_data :
              (cache[s].exists
               /\ Labels(cache[s].rows) \cap Labels(Fresh(s)) # {}) =>
                  /\ StrictlyIncreasing(cache'[s].rows)
                  /\ Labels(cache[s].rows) \cup Labels(Fresh(s))
                        \subseteq Labels(cache'[s].rows)]_vars

\* -------------------------------------- specification: the archival source
\* the csv files earlier runs may have left for symbol s
CacheFilesFlat(s) ==
    CacheFiles(s)
    \cup {[exists |-> TRUE, rows |-> FlatRows(s, D)] : D \in SUBSET Days}

\* a requested symbol has its file in the cache, or has none and the vendor
\* answers the download
SourcesFlat(s) ==
    {[file |-> NoFile, answer |-> r] : r \in ResponsesFlat(s)}
    \cup {[file |-> f, answer |-> NotOk] : f \in CacheFilesFlat(s) \ {NoFile}}

\* HistoricCSVDataHandler over quotes that may repeat from day to day
InitArchive ==
    /\ variant = "CSV" /\ live = FALSE /\ frequency = "daily"
    /\ requested \in SymbolLists
    /\ symbol_list = requested
    /\ \E src \in [Symbols -> UNION {SourcesFlat(s) : s \in Symbols}] :
        /\ \A s \in Symbols :
              src[s] \in (IF s \in Range(requested) THEN SourcesFlat(s)
                          ELSE {[file |-> NoFile, answer |-> NotOk]})
        /\ vendor = [s \in Symbols |-> src[s].answer]
        /\ cache = [s \in Symbols |-> src[s].file]
    /\ start_date \in Days
    /\ end_date \in {NoDate} \cup Days
    /\ today = 1
    /\ symbol_data = Empty
    /\ latest_symbol_data = Empty
    /\ continue_backtest = TRUE
    /\ events = <<>>
    /\ requests = 0
    /\ pc = "new"
    /\ error = "none"
    /\ ticks = 0
    /\ lastOp = "none"
    /\ pool = <<>>

NextArchive ==
    \/ CSV_download_files
    \/ CSV_open_convert_csv_files
    \/ to_generator
    \/ CSV_update_bars
    \/ get_latest_bars

SpecArchive == InitArchive /\ [][NextArchive]_vars

\* the frame _download_files hands to to_csv for a symbol it downloads
Saved(s) == IndexStripTiingo(TiingoPayload(vendor[s].rows))

\* symbol s was downloaded and saved by this construction
SavedNow(s) == vendor[s].kind = "ok" /\ vendor[s].rows # <<>>

\* C15: cache round trip: a series with unique, increasing timestamps that is
\* saved and then loaded comes back equal: the same timestamps in the same
\* order with the same values, no bar lost or added.
C15_CacheRoundTrip ==
    pc = "downloaded" =>
        \A s \in Active :
            (SavedNow(s) /\ StrictlyIncreasing(Saved(s))) =>
                read_csv(cache, s) = Saved(s)

\* C19: after normalisation (the load of the csv file, before trimming and
\* alignment) the timestamps of a series are unique and strictly increasing,
\* and a bar is removed only if a bar of the same timestamp is kept.
C19_NormalisedSeries ==
    pc = "downloaded" =>
        \A s \in Active :
            LET raw == cache[s].rows
                normalised == read_csv(cache, s) IN
            /\ StrictlyIncreasing(normalised)
            /\ \A i \in 1..Len(raw) :
                  raw[i].datetime \in Labels(normalised)

\* the bars of symbol s's series, before alignment, at or before Timestamp t
AtOrBefore(s, t) ==
    {i \in 1..Len(Trimmed(s)) : to_datetime(Trimmed(s)[i].datetime) <= t}

\* the bars of symbol s that alignment created
Filled(s) ==
    {k \in 1..Len(symbol_data[s].rows) :
        \A i \in 1..Len(Trimmed(s)) :
            to_datetime(Trimmed(s)[i].datetime) # symbol_data[s].rows[k].datetime}

\* C16: the aligned bar of a retained symbol at a timestamp t of the canonical
\* index is the symbol's original bar at the greatest original timestamp <= t,
\* or the zero sentinel when there is none; never a later bar.
C16_ForwardFill ==
    (Constructed /\ ~live /\ variant \in {"CSV", "TDA", "FMP"}) =>
        \A s \in Active :
            \A k \in 1..Len(symbol_data[s].rows) :
                LET bar == symbol_data[s].rows[k]
                    before == AtOrBefore(s, bar.datetime) IN
                IF before = {} THEN bar.close = 0
                ELSE \E i \in before :
                        /\ \A j \in before :
                              Trimmed(s)[j].datetime <= Trimmed(s)[i].datetime
                        /\ bar.close = Trimmed(s)[i].close

\* an aligned source in which one symbol got a bar carried forward into a gap
\* and one symbol got the sentinel before its first bar
C16_Witness ==
    /\ Constructed /\ ~live /\ variant \in {"CSV", "TDA", "FMP"}
    /\ \E s \in Active : \E k \in Filled(s) : symbol_data[s].rows[k].close # 0
    /\ \E s \in Active : \E k \in Filled(s) : symbol_data[s].rows[k].close = 0

\* every active symbol has data at the vendor unless a fetch fails: no answer
\* is malformed and no successful answer is empty
VendorHasData ==
    \A s \in Active :
        /\ vendor[s].kind \in {"ok", "notok"}
        /\ vendor[s].kind = "ok" => vendor[s].rows # <<>>

\* C17: in a live source an update_bars call during which the fetch of a
\* symbol fails (timeout or non-ok response) does not raise: the tick completes.
C17_LiveFetchFailureContained ==
    [][(live /\ variant \in {"TDA", "FMP"} /\ pc = "ready"
        /\ ticks' = ticks + 1 /\ VendorHasData) =>
          error' = "none"]_vars

\* the symbols _download_files finds without a csv file
Uncached == {s \in Active : ~cache[s].exists}

\* C18: the archival constructor consults the cache before the network: no
\* request for a symbol whose file exists, one request for each symbol
\* without a file (for each one reached, when the constructor raises on the
\* way), a file is created only from a successful answer, an existing file
\* is never rewritten, and nothing after the download step touches the cache
\* or the vendor.
C18_CacheBeforeNetwork ==
    [][variant = "CSV" =>
          IF pc = "new" /\ pc' # "new"
          THEN /\ requests' <= requests + Cardinality(Uncached)
               /\ pc' = "downloaded" =>
                      requests' = requests + Cardinality(Uncached)
               /\ \A s \in Symbols : cache[s].exists => cache'[s] = cache[s]
               /\ \A s \in Symbols :
                      (cache'[s].exists /\ ~cache[s].exists) =>
                          /\ s \in Uncached
                          /\ vendor[s].kind = "ok"
                          /\ cache'[s].rows = Saved(s)
          ELSE cache' = cache /\ requests' = requests]_vars

\* an archival source built from one cached and one downloaded symbol
C18_Witness ==
    /\ variant = "CSV" /\ pc = "ready" /\ requests = 1
    /\ \E s, u \in Active :
          /\ vendor[s].kind = "notok" /\ cache[s].exists
          /\ SavedNow(u) /\ cache[u].rows = Saved(u)

\* the aligned series, handed to the trimming and reindexing again with the
\* same list and the same bounds; their labels are written as the date
\* strings the bounds are
Realigned ==
    open_convert(symbol_list,
                 [s \in Active |-> IndexToStr(symbol_data[s].rows)],
                 start_date, end_date, Empty, Empty)

\* the second run changes nothing: same universe, same index, same bars
NothingChanges ==
    /\ Realigned.error = "none"
    /\ Realigned.symbol_list = symbol_list
    /\ \A s \in Active : Realigned.symbol_data[s].rows = symbol_data[s].rows

\* C20 as claimed: alignment is idempotent: run again on the series it
\* produced, with the same symbols and bounds, it leaves the universe, the
\* canonical index and every bar unchanged (stated for a first run that
\* produced at least one bar).
C20_AlignmentIdempotent ==
    (variant = "CSV" /\ pc = "converted"
     /\ \E s \in Active : symbol_data[s].rows # <<>>) => NothingChanges

\* C20 as amended: idempotent when no end bound is given.
C20_IdempotentWithoutEndBound ==
    (variant = "CSV" /\ pc = "converted" /\ end_date = NoDate) =>
        NothingChanges

\* an alignment without end bound that trimmed a series and filled a gap
C20_Witness ==
    /\ variant = "CSV" /\ pc = "converted" /\ end_date = NoDate
    /\ \E s \in Active : Filled(s) # {}
    /\ \E s \in Active :
          Len(Trimmed(s)) < Len(read_csv(cache, s))

\* ------------------------------------------ specification: the worker pool
\* one task of p.map: the symbol it was given, whether its worker has
\* returned, what it returned, and its rank among the returns
Task(s) == [sym |-> s, returned |-> FALSE, df |-> <<>>, at |-> 0]
Submitted(list) == [i \in 1..Len(list) |-> Task(list[i])]
Returned == {i \in DOMAIN pool : pool[i].returned}

\* the lambda handed to p.map, applied to one symbol: the csv file of the
\* symbol as a frame, or the answer of _get_historical_data
worker(v, files, vend, freq, s) ==
    IF v = "CSV" THEN read_csv(files, s)
    ELSE get_historical_data(vend[s], freq)

\* the pairs (sym, frame) in the order the workers returned
map_results_as_completed(tasks) ==
    [k \in 1..Len(tasks) |->
        LET i == CHOOSE j \in 1..Len(tasks) : tasks[j].at = k
        IN <<tasks[i].sym, tasks[i].df>>]

\* dfs, the list p.map returns: the pairs (sym, frame) in the order of the
\* symbols it was given
map_results(tasks) ==
    [i \in 1..Len(tasks) |-> <<tasks[i].sym, tasks[i].df>>]

\* the symbols and the frames of "for sym, temp_df in dfs"
PairSyms(dfs) == [i \in 1..Len(dfs) |-> dfs[i][1]]
PairFrames(dfs) ==
    [s \in Range(PairSyms(dfs)) |->
        dfs[CHOOSE i \in 1..Len(dfs) : dfs[i][1] = s][2]]

\* the exception p.map re-raises: the one of the task that failed first
map_raised(tasks) ==
    LET failed == {i \in 1..Len(tasks) : tasks[i].df.kind = "raised"} IN
    IF failed = {} THEN "none"
    ELSE tasks[CHOOSE i \in failed :
                   \A j \in failed : tasks[i].at <= tasks[j].at].df.exc

\* the constructor reaches p.map and hands one task per symbol to the pool
Pool_map ==
    /\ \/ pc = "downloaded" /\ variant = "CSV"
       \/ pc = "new" /\ variant = "FMP"
    /\ pool' = Submitted(symbol_list)
    /\ pc' = "mapping"
    /\ lastOp' = "__init__"
    /\ UNCHANGED <<variant, live, frequency, requested, today, vendor,
                   symbol_list, start_date, end_date, cache, symbol_data,
                   latest_symbol_data, continue_backtest, events, requests,
                   error, ticks>>

\* a worker of the pool runs the lambda on the symbol of task i and returns
Worker_return(i) ==
    /\ pc = "mapping"
    /\ i \in DOMAIN pool /\ ~pool[i].returned
    /\ pool' = [pool EXCEPT ![i] =
                   [sym |-> @.sym, returned |-> TRUE,
                    df |-> worker(variant, cache, vendor, frequency, @.sym),
                    at |-> Cardinality(Returned) + 1]]
    /\ requests' = IF variant = "FMP" THEN requests + 1 ELSE requests
    /\ UNCHANGED <<variant, live, frequency, requested, today, vendor,
                   symbol_list, start_date, end_date, cache, symbol_data,
                   latest_symbol_data, continue_backtest, events, pc, error,
                   ticks, lastOp>>

\* _open_convert_csv_files from the return of p.map on: the loop over the
\* pairs of dfs, the filter and the reindexing over self.symbol_list
pool_open_convert(list, dfs, sd, ed, data, latest) ==
    LET st == convert_loop(PairSyms(dfs), PairFrames(dfs), sd, ed, 1,
                  [symbol_data |-> data, latest |-> latest,
                   dne |-> {}, comb |-> NoIndex, error |-> "none"])
        kept == SeqFilterOut(list, st.dne)
        re == reindex_loop(kept, st.comb, 1,
                  [symbol_data |-> st.symbol_data, error |-> st.error])
    IN [symbol_list |-> IF st.error # "none" THEN list ELSE kept,
        symbol_data |-> re.symbol_data, latest |-> st.latest,
        error |-> re.error]

\* p.map returns once every worker has returned; the rest of
\* _open_convert_csv_files runs on its result
Pool_join_CSV ==
    /\ pc = "mapping" /\ variant = "CSV"
    /\ Returned = DOMAIN pool
    /\ LET r == pool_open_convert(symbol_list, map_results(pool), start_date,
                                  end_date, symbol_data, latest_symbol_data)
       IN
        /\ latest_symbol_data' = r.latest
        /\ symbol_data' = r.symbol_data
        /\ error' = r.error
        /\ symbol_list' = r.symbol_list
        /\ pc' = IF r.error # "none" THEN "raised" ELSE "converted"
    /\ lastOp' = "__init__"
    /\ UNCHANGED <<config, start_date, end_date, cache, continue_backtest,
                   events, requests, ticks>>

\* FMPData._get_symbol_data from the return of p.map on;
\* the result is [symbol_list, symbol_data, latest, error]
pool_get_symbol_data(list, dfs, sd, ed, freq) ==
    LET st == symbol_data_loop(PairSyms(dfs), PairFrames(dfs), sd, ed, freq,
                  1, [symbol_data |-> Empty, sym_to_remove |-> {},
                      comb |-> NoIndex])
        kept == SeqFilterOut(list, st.sym_to_remove)
        re == fmp_reindex_loop(kept, st.comb, 1,
                  [symbol_data |-> st.symbol_data, latest |-> Empty,
                   error |-> "none"])
    IN [symbol_list |-> kept, symbol_data |-> re.symbol_data,
        latest |-> re.latest, error |-> re.error]

\* p.map of FMPData._get_symbol_data returns or re-raises once every worker
\* has returned; the rest of the method runs on its result
Pool_join_FMP ==
    /\ pc = "mapping" /\ variant = "FMP"
    /\ Returned = DOMAIN pool
    /\ lastOp' = "__init__"
    /\ IF map_raised(pool) # "none"
       THEN /\ pc' = "raised"
            /\ error' = map_raised(pool)
            /\ UNCHANGED <<symbol_list, symbol_data, latest_symbol_data>>
       ELSE LET r == pool_get_symbol_data(symbol_list, map_results(pool),
                                          start_date, end_date, frequency)
            IN
             /\ symbol_list' = r.symbol_list
             /\ symbol_data' = r.symbol_data
             /\ latest_symbol_data' = r.latest
             /\ error' = r.error
             /\ IF r.error # "none"
                THEN pc' = "raised"
                ELSE pc' = IF ~live /\ frequency # "daily"
                           THEN "aligned" ELSE "converted"
    /\ UNCHANGED <<config, start_date, end_date, cache, continue_backtest,
                   events, requests, ticks>>

\* the constructors that load their frames through a pool
InitPool == Init /\ variant \in {"CSV", "FMP"}

NextPool ==
    \/ CSV_download_files
    \/ Pool_map
    \/ \E i \in 1..Cardinality(Symbols) : Worker_return(i)
    \/ Pool_join_CSV
    \/ Pool_join_FMP
    \/ FMP_save_to_csv
    \/ to_generator

SpecPool == InitPool /\ [][NextPool]_vars

\* what _open_convert_csv_files builds when the frames are loaded one after
\* the other in the order of self.symbol_list
SequentialCSV ==
    open_convert(symbol_list, read_csv_files(symbol_list, cache), start_date,
                 end_date, symbol_data, latest_symbol_data)

\* what _get_symbol_data builds when the frames are fetched one after the
\* other in the order of self.symbol_list
SequentialFMP ==
    LET dfs == [s \in Range(symbol_list) |->
                   get_historical_data(vendor[s], frequency)]
        st == symbol_data_loop(symbol_list, dfs, start_date, end_date,
                  frequency, 1,
                  [symbol_data |-> Empty, sym_to_remove |-> {},
                   comb |-> NoIndex])
        kept == SeqFilterOut(symbol_list, st.sym_to_remove)
        re == fmp_reindex_loop(kept, st.comb, 1,
                  [symbol_data |-> st.symbol_data, latest |-> Empty,
                   error |-> "none"])
    IN [symbol_list |-> kept, symbol_data |-> re.symbol_data,
        latest |-> re.latest,
        error |-> IF first_raised(symbol_list, dfs, 1) # "none"
                  THEN first_raised(symbol_list, dfs, 1) ELSE re.error]

Sequential == IF variant = "CSV" THEN SequentialCSV ELSE SequentialFMP

\* this step is the return of exactly one worker: one task that had not
\* returned now holds the frame of its own symbol, every other task and the
\* state of the handler are as before
OneWorkerReturns ==
    /\ \E i \in DOMAIN pool :
          /\ ~pool[i].returned /\ pool'[i].returned
          /\ pool'[i].sym = pool[i].sym
          /\ pool'[i].df = worker(variant, cache, vendor, frequency,
                                  pool[i].sym)
          /\ \A j \in DOMAIN pool \ {i} : pool'[j] = pool[j]
    /\ DOMAIN pool' = DOMAIN pool
    /\ UNCHANGED <<symbol_list, symbol_data, latest_symbol_data, cache>>

\* C21: during construction each pool worker handles one symbol and changes
\* nothing but its own result; merging, exclusion and alignment start only
\* after every worker has returned; and the constructed state (active
\* universe, canonical index, aligned series) is the one the same loads give
\* one after the other, whatever the order in which the workers returned.
C21_PoolDeterministic ==
    [][pc = "mapping" =>
          /\ pc' = "mapping" => OneWorkerReturns
          /\ pc' # "mapping" =>
                /\ Returned = DOMAIN pool
                /\ \A i \in DOMAIN pool : pool[i].sym = symbol_list[i]
                /\ (pc' = "raised") = (Sequential.error # "none")
                /\ pc' # "raised" =>
                      /\ symbol_list' = Sequential.symbol_list
                      /\ symbol_data' = Sequential.symbol_data
                      /\ latest_symbol_data' = Sequential.latest]_vars

\* two workers returned in the reverse of the order of their symbols, both
\* symbols were kept, and merging in the order of the returns would have
\* built other series
C21_Witness ==
    /\ variant = "CSV" /\ pc = "converted"
    /\ Len(pool) = 2 /\ pool[2].at = 1 /\ pool[1].at = 2
    /\ Len(symbol_list) = 2
    /\ pool_open_convert(PairSyms(map_results(pool)),
                         map_results_as_completed(pool), start_date,
                         end_date, Empty, Empty).symbol_data # symbol_data

\* ------------------------------------- specification: the backtest's loop
\* the caller's loop "while continue_backtest: update_bars()": the next call
\* is made while the flag is up and the last call returned
InLoop == continue_backtest /\ error = "none"

Loop_CSV_update_bars == InLoop /\ CSV_update_bars
Loop_Alpaca_update_bars == InLoop /\ Alpaca_update_bars
Loop_TDA_update_bars == InLoop /\ TDA_update_bars
Loop_FMP_update_bars == InLoop /\ FMP_update_bars

\* a backtest: no class is in live mode
InitLoop == Init /\ ~live

\* the next call of the loop
Loop_update_bars ==
    \/ Loop_CSV_update_bars
    \/ Loop_Alpaca_update_bars
    \/ Loop_TDA_update_bars
    \/ Loop_FMP_update_bars

NextLoop ==
    \/ CSV_download_files
    \/ CSV_open_convert_csv_files
    \/ Alpaca_init
    \/ TDA_init
    \/ FMP_get_symbol_data
    \/ FMP_save_to_csv
    \/ to_generator
    \/ Loop_CSV_update_bars
    \/ Loop_Alpaca_update_bars
    \/ Loop_TDA_update_bars
    \/ Loop_FMP_update_bars

\* once the source is constructed the caller keeps looping: while the flag
\* is up and no call has raised, the next call is eventually made
SpecLoop == InitLoop /\ [][NextLoop]_vars /\ WF_vars(Loop_update_bars)

\* the loop has ended: the flag is down, or a call raised
LoopEnded == ~continue_backtest \/ error # "none"

\* C22: for a backtest source built from finite series, whatever active
\* universe construction leaves (an empty one included), the loop that calls
\* update_bars while continue_backtest is true ends.
C22_LoopTerminates == (pc = "ready") ~> LoopEnded

\* the same for the sources whose construction left at least one symbol
C22_NonEmptyLoopTerminates ==
    (pc = "ready" /\ symbol_list # <<>>) ~> LoopEnded

\* the rolling histories of s and t have the same length and the same
\* timestamp at every position
SameDates(s, t) ==
    /\ Len(latest_symbol_data[s]) = Len(latest_symbol_data[t])
    /\ \A i \in 1..Min(Len(latest_symbol_data[s]), Len(latest_symbol_data[t])) :
          latest_symbol_data[s][i].datetime = latest_symbol_data[t][i].datetime

\* C23: in a backtest source, after every update_bars call, the rolling
\* histories of all symbols of the active universe have the same length and
\* carry the same timestamp at the same position, also on the tick where
\* exhaustion is detected.
C23_Lockstep ==
    (pc = "ready" /\ ~live /\ lastOp = "update_bars" /\ error = "none") =>
        \A s, t \in Active \cap DOMAIN latest_symbol_data : SameDates(s, t)

\* the classes and modes that serve get_latest_bars from their own
\* dictionaries; a live AlpacaData asks the vendor instead
KeepsSeries == ~(variant = "Alpaca" /\ live)

\* C24: after construction and after every update_bars call, every symbol
\* of the active universe has an entry in symbol_data and an entry in
\* latest_symbol_data, so update_bars never fails on a missing entry and
\* get_latest_bars never answers "not available" for an active symbol.
C24_EntriesExist ==
    (pc = "ready" /\ KeepsSeries) =>
        /\ ~(lastOp = "update_bars" /\ error = "KeyError")
        /\ error = "none" =>
              \A s \in Active :
                  /\ s \in DOMAIN symbol_data
                  /\ s \in DOMAIN latest_symbol_data
                  /\ latest_bars(s, 1) # None

\* the bars update_bars will deliver for symbol s, in order
Delivered(s) == symbol_data[s].rows

\* row b of a csv file as the bar the source delivers for it
AsBar(b) == [datetime |-> to_datetime(b.datetime), close |-> b.close]

\* the rows of the file of symbol s dated from start_date on and, when an
\* end bound is given, strictly before end_date
InWindow(s) ==
    {i \in 1..Len(cache[s].rows) :
        /\ cache[s].rows[i].datetime >= start_date
        /\ end_date = NoDate \/ cache[s].rows[i].datetime < end_date}

\* C25: for a symbol retained by the archival source trimming is half-open:
\* the first delivered bar is the file's bar dated start_date, every later
\* bar of the file dated strictly before end_date is delivered, and no bar
\* dated end_date or later is delivered.
C25_HalfOpenTrim ==
    (variant = "CSV" /\ Constructed) =>
        \A s \in Active :
            /\ Delivered(s) # <<>> =>
                  /\ Delivered(s)[1].datetime = to_datetime(start_date)
                  /\ \E i \in InWindow(s) :
                        AsBar(cache[s].rows[i]) = Delivered(s)[1]
            /\ \A i \in InWindow(s) :
                  \E k \in 1..Len(Delivered(s)) :
                      Delivered(s)[k] = AsBar(cache[s].rows[i])
            /\ end_date # NoDate =>
                  \A k \in 1..Len(Delivered(s)) :
                      Delivered(s)[k].datetime < to_datetime(end_date)
====
